---- MODULE Spec2Model ----
(***************************************************************************)
(* Board engine of minesweeper-py (src/board.py): the Board object, its    *)
(* tiles, mine placement, the neighbor map, the tile actions (press,       *)
(* release, click, flag), the flood fill and the validity scan.            *)
(***************************************************************************)
EXTENDS Integers, Sequences, FiniteSets, TLC

\* ------------------------------------------------------------------ bounds
\* boards of 1..MaxWidth by 1..MaxHeight tiles, at most MaxTiles tiles, up to MaxMines mines
MaxWidth == 4
MaxHeight == 3
MaxTiles == 9
MaxMines == 2
\* tile actions are explored on the boards of at most MaxPlayTiles tiles, with at most
\* MaxMarks tiles flagged or question-marked at a time
MaxPlayTiles == 4
MaxMarks == 1
\* the settings screen: sliders over widths 1..MaxSliderWidth and heights
\* 1..MaxSliderHeight, on boards of at most MaxSliderTiles tiles
MaxSliderWidth == 7
MaxSliderHeight == 2
MaxSliderTiles == 7

\* --------------------------------------------------------------- constants
\* src/board.py:5-14, SHIFT[i] = [row shift, col shift], i in 0..7
SHIFT ==
    (0 :> <<-1, -1>>) @@ (1 :> <<-1, 0>>) @@ (2 :> <<-1, 1>>) @@
    (3 :> <<0, -1>>) @@ (4 :> <<0, 1>>) @@
    (5 :> <<1, -1>>) @@ (6 :> <<1, 0>>) @@ (7 :> <<1, 1>>)

\* src/board.py:17-22 (0-indexed in the source)
TILE_STATES ==
    (0 :> "unchecked") @@ (1 :> "checked") @@ (2 :> "flagged") @@ (3 :> "question")

\* src/board.py:24-29 (0-indexed in the source)
TILE_ACTIONS ==
    (0 :> "press") @@ (1 :> "release") @@ (2 :> "click") @@ (3 :> "flag")

\* src/board.py:33, MAX_MINE_SHARE = 0.8 as the fraction ShareNum / ShareDen
MAX_MINE_SHARE_NUM == 4
MAX_MINE_SHARE_DEN == 5

\* src/board.py:273, maximum_iters = 1e7
maximum_iters == 10000000

\* the value None of get_tile_id_by_row_and_col; a found id k is <<k>>
None == << >>

VARIABLES
    width,                  \* Board.width
    height,                 \* Board.height
    mine_count,             \* Board.mine_count
    tiles,                  \* Board.tiles: 0-indexed list of Tile objects
    tiles_with_mines,       \* Board.tiles_with_mines (the ids sampled)
    neighbors,              \* Board.neighbors: tile id -> list of tile ids
    valid,                  \* Board.valid
    user_won,               \* Board.user_won
    tile_pressed,           \* Board.tile_pressed
    current_pressed_tile,   \* Board.current_pressed_tile
    raised,                 \* exception that left the constructor, setup or a call, or "none"
    last                    \* the last call made on the board

vars == <<width, height, mine_count, tiles, tiles_with_mines, neighbors, valid,
          user_won, tile_pressed, current_pressed_tile, raised, last>>

\* ----------------------------------------------------------------- helpers
\* len(self.tiles)
NumTiles(ts) == Cardinality(DOMAIN ts)

\* Python list indexing self.tiles[i]: -len <= i < len, negative i counts from the end
IndexOk(ts, i) == (0 - NumTiles(ts)) <= i /\ i < NumTiles(ts)
PyIndex(ts, i) == IF i < 0 THEN i + NumTiles(ts) ELSE i

\* class Tile defaults, src/board.py:332-339
Tile ==
    [id |-> 0, mine |-> FALSE, pressed |-> FALSE, status |-> TILE_STATES[0],
     adjacent_mines |-> 0, row |-> 0, col |-> 0]

\* Board.__init__ raises when mines / (width*height) > MAX_MINE_SHARE
ExceedsMaxShare(w, h, m) == m * MAX_MINE_SHARE_DEN > MAX_MINE_SHARE_NUM * (w * h)

\* Board.get_tile_id_by_row_and_col
\* (faulty variant: the upper bound of col is not tested)
get_tile_id_by_row_and_col_open(w, h, row, col) ==
    IF 0 <= row /\ row < h /\ 0 <= col
    THEN <<row * w + col>>
    ELSE None

get_tile_id_by_row_and_col(w, h, row, col) ==
    IF 0 <= row /\ row < h /\ 0 <= col /\ col < w
    THEN <<row * w + col>>
    ELSE None

\* Board._create_tiles: the loop over range(total_tiles) with its running counters
RECURSIVE create_tiles_loop(_, _, _, _, _, _)
create_tiles_loop(w, total_tiles, tile_id, row_count, col_count, acc) ==
    IF tile_id >= total_tiles THEN acc
    ELSE LET wrap == col_count > w - 1
             c == IF wrap THEN 0 ELSE col_count
             r == IF wrap THEN row_count + 1 ELSE row_count
             new_tile == [Tile EXCEPT !.id = tile_id, !.row = r, !.col = c]
         IN create_tiles_loop(w, total_tiles, tile_id + 1, r, c + 1,
                              acc @@ (tile_id :> new_tile))

\* (faulty variant: the column counter wraps at the height instead of the width)
create_tiles_transposed(w, h) == create_tiles_loop(h, w * h, 0, 0, 0, << >>)

create_tiles(w, h) == create_tiles_loop(w, w * h, 0, 0, 0, << >>)

\* Board._assign_mines: random.sample(range(0, len(self.tiles)-1), mine_count)
SamplePopulation(ts) == 0 .. (NumTiles(ts) - 2)

SampleFails(ts, m) == m < 0 \/ m > Cardinality(SamplePopulation(ts))

\* (faulty variant: one id too few is sampled)
Samples_short(ts, m) ==
    {S \in SUBSET SamplePopulation(ts) : Cardinality(S) = IF m > 0 THEN m - 1 ELSE 0}

Samples(ts, m) == {S \in SUBSET SamplePopulation(ts) : Cardinality(S) = m}

assign_mines(ts, S) ==
    [i \in DOMAIN ts |-> IF ts[i].id \in S THEN [ts[i] EXCEPT !.mine = TRUE] ELSE ts[i]]

\* Board._map_neighbors, one round of "for i in range(8)": the neighbor appended, if any
\* (faulty variant: the column is not tested, so a row end wraps to the next row)
neighbor_at_wrap(w, h, row, col, i) ==
    LET row_check == row + SHIFT[i][1]
        col_check == col + SHIFT[i][2]
    IN IF 0 <= row_check /\ row_check < h
       THEN <<row_check * w + col_check>>
       ELSE None

neighbor_at(w, h, row, col, i) ==
    LET row_check == row + SHIFT[i][1]
        col_check == col + SHIFT[i][2]
    IN IF 0 <= row_check /\ row_check < h /\ 0 <= col_check /\ col_check < w
       THEN get_tile_id_by_row_and_col(w, h, row_check, col_check)
       ELSE None

\* Board._map_neighbors, the list self.neighbors[tile.id] after the eight rounds
neighbor_list(w, h, row, col) ==
    neighbor_at(w, h, row, col, 0) \o neighbor_at(w, h, row, col, 1) \o
    neighbor_at(w, h, row, col, 2) \o neighbor_at(w, h, row, col, 3) \o
    neighbor_at(w, h, row, col, 4) \o neighbor_at(w, h, row, col, 5) \o
    neighbor_at(w, h, row, col, 6) \o neighbor_at(w, h, row, col, 7)

\* len([n for n in list if n in S]), the list comprehension of line 271
count_in(list, S) == Cardinality({j \in 1 .. Len(list) : list[j] \in S})

\* Board._map_neighbors: the neighbor map; it is empty when the loop starts (setup and
\* reset_mines clear it first) and gets one entry, keyed by tile.id, per tile that is
\* not a mine
\* (faulty variant: the mine tiles get an entry too)
map_neighbors_all(w, h, ts) ==
    LET index_of(k) == CHOOSE j \in DOMAIN ts : ts[j].id = k
    IN [k \in {ts[i].id : i \in DOMAIN ts} |->
           neighbor_list(w, h, ts[index_of(k)].row, ts[index_of(k)].col)]

map_neighbors(w, h, ts) ==
    LET index_of(k) == CHOOSE j \in DOMAIN ts : ts[j].id = k /\ ~ts[j].mine
    IN [k \in {ts[i].id : i \in {j \in DOMAIN ts : ~ts[j].mine}} |->
           neighbor_list(w, h, ts[index_of(k)].row, ts[index_of(k)].col)]

\* Board._map_neighbors: the tiles with adjacent_mines set (mine tiles are skipped)
map_neighbors_tiles(ts, nbs, mines) ==
    [i \in DOMAIN ts |->
        IF ts[i].mine THEN ts[i]
        ELSE [ts[i] EXCEPT !.adjacent_mines = count_in(nbs[ts[i].id], mines)]]

\* ------------------------------------------------------------- flood fill
\* Board._find_zero_adjacent_neighboring_tiles, "for neighbor_tile_id in self.neighbors[tile_id]"
\* (faulty variant: a flagged or question-marked neighbor is skipped like a checked one)
RECURSIVE visit_neighbors_keepmarks(_, _, _, _)
visit_neighbors_keepmarks(ts, temp_list, nbs, k) ==
    IF k > Len(nbs) THEN [tiles |-> ts, temp_list |-> temp_list]
    ELSE LET neighbor_tile_id == nbs[k]
         IN IF ts[neighbor_tile_id].mine
            THEN visit_neighbors_keepmarks(ts, temp_list, nbs, k + 1)
            ELSE IF ts[neighbor_tile_id].status # TILE_STATES[0]
            THEN visit_neighbors_keepmarks(ts, temp_list, nbs, k + 1)
            ELSE visit_neighbors_keepmarks(
                    [ts EXCEPT ![neighbor_tile_id].status = TILE_STATES[1]],
                    IF ts[neighbor_tile_id].adjacent_mines = 0
                    THEN Append(temp_list, neighbor_tile_id)
                    ELSE temp_list,
                    nbs, k + 1)

RECURSIVE visit_neighbors(_, _, _, _)
visit_neighbors(ts, temp_list, nbs, k) ==
    IF k > Len(nbs) THEN [tiles |-> ts, temp_list |-> temp_list]
    ELSE LET neighbor_tile_id == nbs[k]
         IN IF ts[neighbor_tile_id].mine
            THEN visit_neighbors(ts, temp_list, nbs, k + 1)
            ELSE IF ts[neighbor_tile_id].status = TILE_STATES[1]
            THEN visit_neighbors(ts, temp_list, nbs, k + 1)
            ELSE visit_neighbors(
                    [ts EXCEPT ![neighbor_tile_id].status = TILE_STATES[1]],
                    IF ts[neighbor_tile_id].adjacent_mines = 0
                    THEN Append(temp_list, neighbor_tile_id)
                    ELSE temp_list,
                    nbs, k + 1)

\* "for tile_id in tiles_to_check"
\* (faulty variant: only the first tile of the frontier is visited)
RECURSIVE visit_frontier_first(_, _, _, _, _)
visit_frontier_first(ts, nbmap, temp_list, tiles_to_check, j) ==
    IF j > Len(tiles_to_check) \/ j > 1 THEN [tiles |-> ts, temp_list |-> temp_list]
    ELSE LET r == visit_neighbors(ts, temp_list, nbmap[tiles_to_check[j]], 1)
         IN visit_frontier_first(r.tiles, nbmap, r.temp_list, tiles_to_check, j + 1)

RECURSIVE visit_frontier(_, _, _, _, _)
visit_frontier(ts, nbmap, temp_list, tiles_to_check, j) ==
    IF j > Len(tiles_to_check) THEN [tiles |-> ts, temp_list |-> temp_list]
    ELSE LET r == visit_neighbors(ts, temp_list, nbmap[tiles_to_check[j]], 1)
         IN visit_frontier(r.tiles, nbmap, r.temp_list, tiles_to_check, j + 1)

\* "while True": ends with an empty frontier, or raises RuntimeWarning at the cap
RECURSIVE flood_loop(_, _, _, _)
flood_loop(ts, nbmap, tiles_to_check, current_iter) ==
    IF Len(tiles_to_check) = 0
    THEN [tiles |-> ts, error |-> "none", iters |-> current_iter]
    ELSE IF current_iter + 1 >= maximum_iters
    THEN [tiles |-> ts, error |-> "RuntimeWarning", iters |-> current_iter + 1]
    ELSE LET r == visit_frontier(ts, nbmap, << >>, tiles_to_check, 1)
         IN flood_loop(r.tiles, nbmap, r.temp_list, current_iter + 1)

\* the frontiers of the "while True" loop one after the other: every tiles_to_check list
\* of a run, concatenated in the order of the rounds
RECURSIVE flood_frontiers(_, _, _, _)
flood_frontiers(ts, nbmap, tiles_to_check, acc) ==
    IF Len(tiles_to_check) = 0 THEN acc
    ELSE LET r == visit_frontier(ts, nbmap, << >>, tiles_to_check, 1)
         IN flood_frontiers(r.tiles, nbmap, r.temp_list, acc \o tiles_to_check)

\* self.neighbors[tile_id] of the first round fails with KeyError when tile_id is no key
\* (faulty variant: one round only, the frontier is not followed)
find_zero_adjacent_neighboring_tiles_once(ts, nbmap, tile_id) ==
    IF tile_id \notin DOMAIN nbmap
    THEN [tiles |-> ts, error |-> "KeyError", iters |-> 1]
    ELSE [tiles |-> visit_frontier(ts, nbmap, << >>, <<tile_id>>, 1).tiles,
          error |-> "none", iters |-> 1]

\* (faulty variant: the round counter starts two below the cap)
find_zero_adjacent_neighboring_tiles_capped(ts, nbmap, tile_id) ==
    IF tile_id \notin DOMAIN nbmap
    THEN [tiles |-> ts, error |-> "KeyError", iters |-> 1]
    ELSE flood_loop(ts, nbmap, <<tile_id>>, maximum_iters - 2)

find_zero_adjacent_neighboring_tiles(ts, nbmap, tile_id) ==
    IF tile_id \notin DOMAIN nbmap
    THEN [tiles |-> ts, error |-> "KeyError", iters |-> 1]
    ELSE flood_loop(ts, nbmap, <<tile_id>>, 0)

\* ------------------------------------------------------------ tile actions
\* Board._release_tiles (the tiles; the two board fields are set by the caller below)
release_tiles(ts) == [i \in DOMAIN ts |-> [ts[i] EXCEPT !.pressed = FALSE]]

\* Board._check_validity
\* (faulty variant: the scan is left out)
check_validity_skipped(ts, v) == v

check_validity(ts, v) ==
    IF \E i \in DOMAIN ts : ts[i].mine /\ ts[i].status = TILE_STATES[1] THEN FALSE ELSE v

\* Board._flag_tile: the new status of a tile
\* (faulty variant: a question mark is never taken back)
flag_status_stuck(status) ==
    IF status = TILE_STATES[0] THEN TILE_STATES[2]
    ELSE IF status = TILE_STATES[2] THEN TILE_STATES[3]
    ELSE status

\* (faulty variant: a flag call takes a checked tile back to unchecked)
flag_status_hides(status) ==
    IF status = TILE_STATES[0] THEN TILE_STATES[2]
    ELSE IF status = TILE_STATES[2] THEN TILE_STATES[3]
    ELSE TILE_STATES[0]

\* (faulty variant: the first flag call reveals the tile)
flag_status_checks(status) ==
    IF status = TILE_STATES[0] THEN TILE_STATES[1]
    ELSE IF status = TILE_STATES[2] THEN TILE_STATES[3]
    ELSE IF status = TILE_STATES[3] THEN TILE_STATES[0]
    ELSE status

flag_status(status) ==
    IF status = TILE_STATES[0] THEN TILE_STATES[2]
    ELSE IF status = TILE_STATES[2] THEN TILE_STATES[3]
    ELSE IF status = TILE_STATES[3] THEN TILE_STATES[0]
    ELSE status

\* (faulty variant: the flagged tile is released as well)
flag_tile_releases(ts, tile_id) ==
    [ts EXCEPT ![PyIndex(ts, tile_id)].status = flag_status(@),
               ![PyIndex(ts, tile_id)].pressed = FALSE]

flag_tile(ts, tile_id) ==
    [ts EXCEPT ![PyIndex(ts, tile_id)].status = flag_status(@)]

\* a board as a record, for the operators that compute the outcome of a call
Board ==
    [tiles |-> tiles, valid |-> valid, user_won |-> user_won,
     tile_pressed |-> tile_pressed, current_pressed_tile |-> current_pressed_tile]

\* Board._release_tiles
\* (faulty variant: the loop over the tiles is left out)
do_release_flags(b) ==
    [b EXCEPT !.tile_pressed = FALSE, !.current_pressed_tile = -1]

do_release(b) ==
    [b EXCEPT !.tile_pressed = FALSE, !.current_pressed_tile = -1,
              !.tiles = release_tiles(b.tiles)]

\* Board._press_tile
\* (faulty variant: the tiles pressed before are not released)
press_tile_norelease(b, tile_id) ==
    [b EXCEPT !.tiles[PyIndex(b.tiles, tile_id)].pressed = TRUE, !.tile_pressed = TRUE]

press_tile(b, tile_id) ==
    LET r == do_release(b)
    IN [r EXCEPT !.tiles[PyIndex(b.tiles, tile_id)].pressed = TRUE,
                 !.tile_pressed = TRUE]

\* Board._click_tile; path names the branch taken
\* (faulty variant: the pressed tiles are not released first)
click_tile_norelease(b, nbmap, tile_id) ==
    LET r == b
        idx == PyIndex(b.tiles, tile_id)
        ts1 == [r.tiles EXCEPT ![idx].status = TILE_STATES[1]]
    IN IF ts1[idx].mine
       THEN [board |-> [r EXCEPT !.tiles = ts1, !.valid = check_validity(ts1, r.valid)],
             path |-> "click_mine"]
       ELSE IF ts1[idx].adjacent_mines = 0
       THEN LET f == find_zero_adjacent_neighboring_tiles(ts1, nbmap, tile_id)
            IN IF f.error = "none"
               THEN [board |-> [r EXCEPT !.tiles = f.tiles,
                                         !.valid = check_validity(f.tiles, r.valid)],
                     path |-> "click_flood"]
               ELSE [board |-> [r EXCEPT !.tiles = f.tiles], path |-> f.error]
       ELSE [board |-> [r EXCEPT !.tiles = ts1, !.valid = check_validity(ts1, r.valid)],
             path |-> "click_number"]

\* (faulty variant: the flood fill also starts from a tile with adjacent mines)
click_tile_floods(b, nbmap, tile_id) ==
    LET r == do_release(b)
        idx == PyIndex(b.tiles, tile_id)
        ts1 == [r.tiles EXCEPT ![idx].status = TILE_STATES[1]]
    IN IF ts1[idx].mine
       THEN [board |-> [r EXCEPT !.tiles = ts1, !.valid = check_validity(ts1, r.valid)],
             path |-> "click_mine"]
       ELSE IF ts1[idx].adjacent_mines >= 0
       THEN LET f == find_zero_adjacent_neighboring_tiles(ts1, nbmap, tile_id)
            IN IF f.error = "none"
               THEN [board |-> [r EXCEPT !.tiles = f.tiles,
                                         !.valid = check_validity(f.tiles, r.valid)],
                     path |-> "click_flood"]
               ELSE [board |-> [r EXCEPT !.tiles = f.tiles], path |-> f.error]
       ELSE [board |-> [r EXCEPT !.tiles = ts1, !.valid = check_validity(ts1, r.valid)],
             path |-> "click_number"]

click_tile(b, nbmap, tile_id) ==
    LET r == do_release(b)
        idx == PyIndex(b.tiles, tile_id)
        ts1 == [r.tiles EXCEPT ![idx].status = TILE_STATES[1]]
    IN IF ts1[idx].mine
       THEN [board |-> [r EXCEPT !.tiles = ts1, !.valid = check_validity(ts1, r.valid)],
             path |-> "click_mine"]
       ELSE IF ts1[idx].adjacent_mines = 0
       THEN LET f == find_zero_adjacent_neighboring_tiles(ts1, nbmap, tile_id)
            IN IF f.error = "none"
               THEN [board |-> [r EXCEPT !.tiles = f.tiles,
                                         !.valid = check_validity(f.tiles, r.valid)],
                     path |-> "click_flood"]
               ELSE [board |-> [r EXCEPT !.tiles = f.tiles], path |-> f.error]
       ELSE [board |-> [r EXCEPT !.tiles = ts1, !.valid = check_validity(ts1, r.valid)],
             path |-> "click_number"]

\* Board.tile_action line 122: the guard that makes a call do nothing
\* (faulty variants: valid is not tested; the tile status is not tested)
Guarded_novalid(b, action, tile_id) ==
    (b.tiles[PyIndex(b.tiles, tile_id)].status # TILE_STATES[0] /\ action # TILE_ACTIONS[3])
    \/ b.user_won

Guarded_nostatus(b, action, tile_id) ==
    ~b.valid \/ b.user_won

Guarded(b, action, tile_id) ==
    (b.tiles[PyIndex(b.tiles, tile_id)].status # TILE_STATES[0] /\ action # TILE_ACTIONS[3])
    \/ ~b.valid \/ b.user_won

\* Board.tile_action from line 121 on, for a resolved tile_id
act_on_tile(b, nbmap, action, tile_id) ==
    IF ~IndexOk(b.tiles, tile_id) THEN [board |-> b, path |-> "IndexError"]
    ELSE IF Guarded(b, action, tile_id) THEN [board |-> b, path |-> "guard"]
    ELSE IF action = TILE_ACTIONS[0]
    THEN [board |-> press_tile(b, tile_id), path |-> "press"]
    ELSE IF action = TILE_ACTIONS[2] THEN click_tile(b, nbmap, tile_id)
    ELSE IF action = TILE_ACTIONS[3]
    THEN [board |-> [b EXCEPT !.tiles = flag_tile(b.tiles, tile_id)], path |-> "flag"]
    ELSE [board |-> b, path |-> "none"]

\* Board.tile_action(action, tile_id=...)
tile_action_by_id(b, nbmap, action, tile_id) ==
    IF action # TILE_ACTIONS[1] THEN act_on_tile(b, nbmap, action, tile_id)
    ELSE [board |-> do_release(b), path |-> "release"]

\* Board.tile_action(action, row=..., col=...)
tile_action_by_row_col(b, nbmap, w, h, action, row, col) ==
    IF action # TILE_ACTIONS[1]
    THEN LET tile_id == get_tile_id_by_row_and_col(w, h, row, col)
         IN IF tile_id = None THEN [board |-> b, path |-> "no_target"]
            ELSE act_on_tile(b, nbmap, action, tile_id[1])
    ELSE [board |-> do_release(b), path |-> "release"]

\* Board.tile_action(action) without a target
tile_action_no_target(b, action) ==
    IF action = TILE_ACTIONS[1] THEN [board |-> do_release(b), path |-> "release"]
    ELSE [board |-> b, path |-> "ValueError"]

\* MineSweeper.game_event, the MOUSEBUTTONUP branch below the header: the click goes to
\* the board when a tile is pressed; flag_only is handed to tile_action as a keyword,
\* which tile_action never reads
game_event_mouse_up(b, nbmap, w, h, flag_only, row, col) ==
    IF b.tile_pressed
    THEN tile_action_by_row_col(b, nbmap, w, h, TILE_ACTIONS[2], row, col)
    ELSE [board |-> b, path |-> "none"]

\* ---------------------------------------------------------------- actions
\* number of tiles that carry a flag or a question mark
MarkCount(ts) ==
    Cardinality({i \in DOMAIN ts : ts[i].status \in {TILE_STATES[2], TILE_STATES[3]}})

\* Board(width, height, mines) for arguments from the bounded sets; the constructor
\* raises ValueError above the maximum share and then produces no board
Init ==
    \E w \in 1 .. MaxWidth, h \in 1 .. MaxHeight :
        \E m \in -1 .. MaxMines :
            /\ w * h <= MaxTiles
            /\ width = w
            /\ height = h
            /\ mine_count = m
            /\ tiles = << >>
            /\ tiles_with_mines = {}
            /\ neighbors = << >>
            /\ valid = TRUE
            /\ user_won = FALSE
            /\ tile_pressed = FALSE
            /\ current_pressed_tile = -1
            /\ raised = IF ExceedsMaxShare(w, h, m) THEN "ValueError" ELSE "none"
            /\ last = "__init__"

\* Board.setup: clear_board, _create_tiles, _assign_mines, _map_neighbors, valid = True
Setup ==
    /\ raised = "none"
    /\ LET ts0 == create_tiles(width, height)
       IN IF SampleFails(ts0, mine_count)
          THEN /\ tiles' = ts0
               /\ tiles_with_mines' = {}
               /\ neighbors' = << >>
               /\ raised' = "ValueError"
               /\ last' = "setup"
               /\ UNCHANGED valid
          ELSE \E S \in Samples(ts0, mine_count) :
                  LET ts1 == assign_mines(ts0, S)
                      nbmap == map_neighbors(width, height, ts1)
                  IN /\ tiles' = map_neighbors_tiles(ts1, nbmap, S)
                     /\ tiles_with_mines' = S
                     /\ neighbors' = nbmap
                     /\ valid' = TRUE
                     /\ last' = "setup"
                     /\ UNCHANGED raised
    /\ UNCHANGED <<width, height, mine_count, user_won, tile_pressed, current_pressed_tile>>

\* Board.reset_mines
ResetMines ==
    /\ raised = "none"
    /\ LET ts0 == [i \in DOMAIN tiles |->
                     [tiles[i] EXCEPT !.mine = FALSE, !.status = TILE_STATES[0],
                                      !.adjacent_mines = 0]]
       IN IF SampleFails(ts0, mine_count)
          THEN /\ tiles' = ts0
               /\ neighbors' = << >>
               /\ raised' = "ValueError"
               /\ last' = "reset_mines"
               /\ UNCHANGED tiles_with_mines
          ELSE \E S \in Samples(ts0, mine_count) :
                  LET ts1 == assign_mines(ts0, S)
                      nbmap == map_neighbors(width, height, ts1)
                  IN /\ tiles' = map_neighbors_tiles(ts1, nbmap, S)
                     /\ tiles_with_mines' = S
                     /\ neighbors' = nbmap
                     /\ last' = "reset_mines"
                     /\ UNCHANGED raised
    /\ UNCHANGED <<width, height, mine_count, valid, user_won, tile_pressed,
                   current_pressed_tile>>

\* the board after a call of tile_action; the call is logged in last, and an exception
\* that leaves the call ends the run (nothing in src/ catches it)
Apply(out) ==
    /\ NumTiles(tiles) <= MaxPlayTiles
    /\ MarkCount(out.board.tiles) <= MaxMarks
    /\ tiles' = out.board.tiles
    /\ valid' = out.board.valid
    /\ user_won' = out.board.user_won
    /\ tile_pressed' = out.board.tile_pressed
    /\ current_pressed_tile' = out.board.current_pressed_tile
    /\ last' = "tile_action"
    /\ raised' = IF out.path \in {"IndexError", "KeyError", "ValueError", "RuntimeWarning"}
                 THEN out.path ELSE raised
    /\ UNCHANGED <<width, height, mine_count, tiles_with_mines, neighbors>>

\* board.tile_action(action, tile_id=tile_id)
TileActionById(action, tile_id) ==
    /\ raised = "none"
    /\ Apply(tile_action_by_id(Board, neighbors, action, tile_id))

\* board.tile_action(action, row=row, col=col)
TileActionByRowCol(action, row, col) ==
    /\ raised = "none"
    /\ Apply(tile_action_by_row_col(Board, neighbors, width, height, action, row, col))

\* board.tile_action(action)
TileActionNoTarget(action) ==
    /\ raised = "none"
    /\ Apply(tile_action_no_target(Board, action))

Actions == {TILE_ACTIONS[i] : i \in DOMAIN TILE_ACTIONS}

\* the (row, col) pairs a call is addressed to: every cell of the board, and one pair
\* past each of its four sides
RowColTargets ==
    ((0 .. (height - 1)) \X (0 .. (width - 1)))
    \cup {<<-1, 0>>, <<0, -1>>, <<height, 0>>, <<0, width>>}

Next ==
    \/ Setup
    \/ ResetMines
    \/ \E action \in Actions \ {TILE_ACTIONS[1]} :
          \E tile_id \in -1 .. NumTiles(tiles) :
              TileActionById(action, tile_id)
    \/ \E action \in Actions \ {TILE_ACTIONS[1]} :
          \E rc \in RowColTargets : TileActionByRowCol(action, rc[1], rc[2])
    \/ \E action \in Actions : TileActionNoTarget(action)

Spec == Init /\ [][Next]_vars

\* -------------------------------------------------------- settings screen
\* MineSweeper.__init__: Board(width, height, mines) of the stored game specs, accepted by
\* the constructor, followed by board.setup()
InitSettings ==
    \E w \in 1 .. MaxSliderWidth, h \in 1 .. MaxSliderHeight :
        \E m \in 0 .. MaxMines :
            /\ w * h <= MaxSliderTiles
            /\ ~ExceedsMaxShare(w, h, m)
            /\ ~SampleFails(create_tiles(w, h), m)
            /\ \E S \in Samples(create_tiles(w, h), m) :
                  LET ts1 == assign_mines(create_tiles(w, h), S)
                      nbmap == map_neighbors(w, h, ts1)
                  IN /\ tiles = map_neighbors_tiles(ts1, nbmap, S)
                     /\ tiles_with_mines = S
                     /\ neighbors = nbmap
            /\ width = w
            /\ height = h
            /\ mine_count = m
            /\ valid = TRUE
            /\ user_won = FALSE
            /\ tile_pressed = FALSE
            /\ current_pressed_tile = -1
            /\ raised = "none"
            /\ last = "setup"

\* MineSweeper._slider_position_to_board_stats, 'mine_slider': the values of
\* int(width*height*(MAX_MINE_RATIO-MIN_MINE_RATIO)*ratio + width*height*MIN_MINE_RATIO)
\* for ratio in 0.0 .. 1.0, up to the maximum share of the tiles
MineSliderValues(w, h) == 0 .. ((w * h * MAX_MINE_SHARE_NUM) \div MAX_MINE_SHARE_DEN)

\* MineSweeper._slider_position_to_board_stats, 'width_slider': board.width is assigned
SliderWidth(w) ==
    /\ raised = "none"
    /\ w * height <= MaxSliderTiles
    /\ width' = w
    /\ last' = "settings_event"
    /\ UNCHANGED <<height, mine_count, tiles, tiles_with_mines, neighbors, valid, user_won,
                   tile_pressed, current_pressed_tile, raised>>

\* MineSweeper._slider_position_to_board_stats, 'height_slider': board.height is assigned
SliderHeight(h) ==
    /\ raised = "none"
    /\ width * h <= MaxSliderTiles
    /\ height' = h
    /\ last' = "settings_event"
    /\ UNCHANGED <<width, mine_count, tiles, tiles_with_mines, neighbors, valid, user_won,
                   tile_pressed, current_pressed_tile, raised>>

\* MineSweeper._slider_position_to_board_stats, 'mine_slider': board.mine_count is
\* assigned from the width and height of the moment
SliderMine(m) ==
    /\ raised = "none"
    /\ mine_count' = m
    /\ last' = "settings_event"
    /\ UNCHANGED <<width, height, tiles, tiles_with_mines, neighbors, valid, user_won,
                   tile_pressed, current_pressed_tile, raised>>

\* MineSweeper.settings_event, return_to_game: self.board.setup()
ReturnToGame == Setup

NextSettings ==
    \/ \E w \in 1 .. MaxSliderWidth : SliderWidth(w)
    \/ \E h \in 1 .. MaxSliderHeight : SliderHeight(h)
    \/ \E m \in MineSliderValues(width, height) : SliderMine(m)
    \/ ReturnToGame

SpecSettings == InitSettings /\ [][NextSettings]_vars

\* ------------------------------------------------- reference definitions
\* the grid read off the tile ids: tile i lies in row i \div width, column i % width
RefRow(i) == i \div width
RefCol(i) == i % width
Dist(a, b) == IF a >= b THEN a - b ELSE b - a

\* the in-bounds 8-neighbours of tile i, by brute force over the grid
RefNeighbours(i) ==
    {j \in DOMAIN tiles :
        j # i /\ Dist(RefRow(i), RefRow(j)) <= 1 /\ Dist(RefCol(i), RefCol(j)) <= 1}

\* number of 8-neighbours of tile i that are mines
RefMineCount(i) == Cardinality({j \in RefNeighbours(i) : tiles[j].mine})

\* reveal region of tile t: t and every non-mine tile reached from t by neighbour steps
\* that leave only non-mine tiles without adjacent mines
RECURSIVE RefReach(_)
RefReach(S) ==
    LET step == {j \in DOMAIN tiles :
                    ~tiles[j].mine /\
                    \E i \in S : ~tiles[i].mine /\ RefMineCount(i) = 0 /\ j \in RefNeighbours(i)}
    IN IF step \subseteq S THEN S ELSE RefReach(S \cup step)

RefRegion(t) == RefReach({t})

StatusOf(ts) == [i \in DOMAIN ts |-> ts[i].status]

Live == raised = "none" /\ valid /\ ~user_won

\* the outcome of tile_action(action) addressed to tile t by id, and by (row, col)
ById(action, t) == tile_action_by_id(Board, neighbors, action, t)
ByRowCol(action, t) ==
    tile_action_by_row_col(Board, neighbors, width, height, action,
                           tiles[t].row, tiles[t].col)

\* ------------------------------------------------------------------ claims
\* C1: after setup() exactly mine_count tiles are mines, width*height - mine_count are
\* not, and tiles_with_mines holds exactly the ids of the mine tiles, mine_count
\* distinct ids.
C1_MineCount ==
    (last = "setup" /\ raised = "none") =>
        /\ Cardinality({i \in DOMAIN tiles : tiles[i].mine}) = mine_count
        /\ Cardinality({i \in DOMAIN tiles : ~tiles[i].mine}) = width * height - mine_count
        /\ tiles_with_mines = {tiles[i].id : i \in {j \in DOMAIN tiles : tiles[j].mine}}
        /\ Cardinality(tiles_with_mines) = mine_count

C1_Witness ==
    /\ last = "setup" /\ raised = "none"
    /\ mine_count = 2 /\ width * height >= 6
    /\ Cardinality({i \in DOMAIN tiles : tiles[i].mine}) = 2

\* C2: after setup() and after reset_mines(), adjacent_mines of every tile that is not a
\* mine equals the number of its in-bounds 8-neighbours that are mines, counted by brute
\* force over the grid.
C2_AdjacentMines ==
    (last \in {"setup", "reset_mines"} /\ raised = "none") =>
        \A i \in DOMAIN tiles :
            ~tiles[i].mine => tiles[i].adjacent_mines = RefMineCount(i)

C2_Witness ==
    /\ last = "reset_mines" /\ raised = "none"
    /\ \E i \in DOMAIN tiles :
          /\ ~tiles[i].mine
          /\ Cardinality(RefNeighbours(i)) = 8
          /\ tiles[i].adjacent_mines = 2

\* C3: a click on an unchecked mine tile of a live board sets valid to false and sets
\* only the clicked tile to checked; no other tile changes status and no flood fill runs.
C3_ClickMine ==
    Live =>
        \A t \in DOMAIN tiles :
            (tiles[t].mine /\ tiles[t].status = "unchecked") =>
                LET out == ByRowCol("click", t)
                IN /\ out.path = "click_mine"
                   /\ out.board.valid = FALSE
                   /\ StatusOf(out.board.tiles) = [StatusOf(tiles) EXCEPT ![t] = "checked"]
                   /\ ById("click", t) = out

C3_Witness ==
    /\ last = "tile_action" /\ raised = "none" /\ ~valid
    /\ \E t \in DOMAIN tiles :
          /\ tiles[t].mine /\ tiles[t].status = "checked"
          /\ \A u \in DOMAIN tiles \ {t} : tiles[u].status # "checked"
          /\ \E u \in DOMAIN tiles : tiles[u].status = "flagged"

\* C4: a click on an unchecked tile t that is no mine and has no adjacent mines, on a live
\* board, leaves checked exactly the reveal region of t (flagged and question-marked
\* tiles of the region included); no mine is revealed and no tile outside the region
\* changes status.
C4_FloodRegion ==
    Live =>
        \A t \in DOMAIN tiles :
            (~tiles[t].mine /\ tiles[t].status = "unchecked" /\ tiles[t].adjacent_mines = 0) =>
                LET out == ByRowCol("click", t)
                    region == RefRegion(t)
                IN /\ out.path = "click_flood"
                   /\ StatusOf(out.board.tiles) =
                          [u \in DOMAIN tiles |->
                              IF u \in region THEN "checked" ELSE tiles[u].status]
                   /\ \A u \in region : ~tiles[u].mine
                   /\ out.board.valid
                   /\ ById("click", t) = out

\* a live board on which the region of an unchecked zero tile t holds a marked tile and
\* leaves out a tile that is no mine, and the click on t reveals the one and not the other
C4_Witness ==
    /\ Live
    /\ \E t \in DOMAIN tiles :
          /\ ~tiles[t].mine /\ tiles[t].status = "unchecked" /\ tiles[t].adjacent_mines = 0
          /\ \E u \in RefRegion(t), v \in DOMAIN tiles \ RefRegion(t) :
                /\ tiles[u].status \in {"flagged", "question"}
                /\ ~tiles[v].mine /\ tiles[v].status = "unchecked"
                /\ LET out == tile_action_by_id(Board, neighbors, "click", t)
                   IN /\ out.board.tiles[u].status = "checked"
                      /\ out.board.tiles[v].status = "unchecked"

\* C5: after any sequence of tile actions following setup(), on a board with mines,
\* user_won is true if and only if every tile that is not a mine is checked and the board
\* is still valid.
C5_WinFlag ==
    (last = "tile_action" /\ raised = "none" /\ NumTiles(tiles) > 0 /\ mine_count >= 1) =>
        (user_won <=>
            (valid /\ \A i \in DOMAIN tiles : ~tiles[i].mine => tiles[i].status = "checked"))

\* C6: once valid is false or user_won is true, a press, release, click or flag call, by
\* id or by row and column, changes the status of no tile, and the board stays frozen.
C6_Frozen ==
    [][((~valid \/ user_won) /\ last' = "tile_action") =>
          /\ StatusOf(tiles') = StatusOf(tiles)
          /\ (~valid' \/ user_won')]_vars

\* a tile action has been made on a board that was reshuffled after a loss, hence frozen
C6_Witness ==
    /\ last = "tile_action" /\ raised = "none" /\ ~valid
    /\ NumTiles(tiles) >= 2
    /\ \A i \in DOMAIN tiles : tiles[i].status = "unchecked"

\* the board after flag calls on tile t, by id
Flag1(b, t) == tile_action_by_id(b, neighbors, "flag", t).board
Flag2(b, t) == Flag1(Flag1(b, t), t)
Flag3(b, t) == Flag1(Flag2(b, t), t)
Flag4(b, t) == Flag1(Flag3(b, t), t)

\* C7: on a live board three flag calls on a tile that is unchecked, flagged or
\* question-marked return it to its status, one or two calls do not, and the fourth call
\* gives the status the first gave; the cycle is unchecked, flagged, question.
C7_FlagCycle ==
    Live =>
        \A t \in DOMAIN tiles :
            tiles[t].status \in {"unchecked", "flagged", "question"} =>
                /\ Flag3(Board, t).tiles[t].status = tiles[t].status
                /\ Flag1(Board, t).tiles[t].status # tiles[t].status
                /\ Flag2(Board, t).tiles[t].status # tiles[t].status
                /\ Flag4(Board, t).tiles[t].status = Flag1(Board, t).tiles[t].status
                /\ tiles[t].status = "unchecked" =>
                       /\ Flag1(Board, t).tiles[t].status = "flagged"
                       /\ Flag2(Board, t).tiles[t].status = "question"

\* a tile has been flagged twice and the next flag call returns it to unchecked
C7_Witness ==
    /\ Live /\ last = "tile_action"
    /\ \E t \in DOMAIN tiles :
          /\ tiles[t].status = "question"
          /\ Flag1(Board, t).tiles[t].status = "unchecked"

\* the board after a click on tile t, by id
Click1(b, t) == tile_action_by_id(b, neighbors, "click", t).board

\* C8: a click on a tile that is not unchecked changes nothing (no tile, nor valid, nor
\* user_won); clicking a tile twice gives what clicking it once gives; a flagged mine is
\* not detonated by a click.
C8_ClickNoOp ==
    raised = "none" =>
        \A t \in DOMAIN tiles :
            /\ tiles[t].status # "unchecked" =>
                   /\ ById("click", t) = [board |-> Board, path |-> "guard"]
                   /\ ByRowCol("click", t) = [board |-> Board, path |-> "guard"]
            /\ Click1(Click1(Board, t), t) = Click1(Board, t)

\* a live board with a checked tile and a flagged mine, which a click leaves as it is
C8_Witness ==
    /\ Live /\ last = "tile_action"
    /\ \E t, u \in DOMAIN tiles :
          /\ tiles[t].mine /\ tiles[t].status = "flagged"
          /\ tiles[u].status = "checked"
          /\ Click1(Board, t) = Board
          /\ Click1(Board, u) = Board

\* C9: the constructor rejects a mine count whose share of the tiles lies outside the
\* allowed band: above the maximum share, or below the minimum share, as a board
\* without mines is.
C9_RatioBand ==
    (last = "__init__" /\ (mine_count = 0 \/ ExceedsMaxShare(width, height, mine_count))) =>
        raised = "ValueError"

\* C10: a press, click or flag call addressed by a (row, col) pair off the board returns
\* without raising and changes nothing of the board.
C10_OffBoard ==
    raised = "none" =>
        \A action \in {"press", "click", "flag"} :
            \A row \in -1 .. height, col \in -1 .. width :
                ~(0 <= row /\ row < height /\ 0 <= col /\ col < width) =>
                    LET out == tile_action_by_row_col(Board, neighbors, width, height,
                                                      action, row, col)
                    IN out.board = Board /\ out.path = "no_target"

\* a live board in play, with a tile pressed, on which a click just past the last column
\* of the first row finds no tile
C10_Witness ==
    /\ Live /\ last = "tile_action" /\ height >= 2
    /\ \E t, u \in DOMAIN tiles : tiles[t].pressed /\ tiles[u].status = "checked"
    /\ tile_action_by_row_col(Board, neighbors, width, height, "click", 0, width).path
           = "no_target"

\* C11: a press, click or flag call addressed by a tile_id outside 0 .. width*height - 1
\* (negative, or width*height and above) returns without raising and changes nothing of
\* the board; a negative id never acts on some other tile.
C11_IdOutOfRange ==
    (raised = "none" /\ NumTiles(tiles) > 0) =>
        \A action \in {"press", "click", "flag"} :
            \A tile_id \in {-1, NumTiles(tiles)} :
                LET out == tile_action_by_id(Board, neighbors, action, tile_id)
                IN /\ out.board = Board
                   /\ out.path \notin {"IndexError", "KeyError", "RuntimeWarning"}

\* C12: mine placement ranges over the full tile-id range 0 .. width*height - 1: every
\* set of mine_count distinct tile ids is an outcome of setup(), so that every tile, the
\* last one included, can carry a mine.
C12_FullRange ==
    (raised = "none" /\ mine_count >= 1) =>
        \A S \in SUBSET (0 .. (width * height - 1)) :
            Cardinality(S) = mine_count =>
                S \in Samples(create_tiles(width, height), mine_count)

\* C13: after setup(), in whatever state it is called (mid-game, after a loss, with a
\* tile pressed), the board is fresh: valid is true, user_won is false, tile_pressed is
\* false, no tile is pressed and every tile is unchecked.
C13_FreshAfterSetup ==
    (last = "setup" /\ raised = "none") =>
        /\ valid
        /\ ~user_won
        /\ ~tile_pressed
        /\ \A i \in DOMAIN tiles : ~tiles[i].pressed /\ tiles[i].status = "unchecked"

\* C14: with flag_only on, a click on a tile is routed to flag: the target tile advances
\* along the flag cycle and is not revealed (it does not become checked, no other tile
\* changes status, valid is unchanged).
C14_FlagOnly ==
    (Live /\ tile_pressed) =>
        \A t \in DOMAIN tiles :
            LET out == game_event_mouse_up(Board, neighbors, width, height, TRUE,
                                           tiles[t].row, tiles[t].col)
            IN /\ StatusOf(out.board.tiles) =
                      [StatusOf(tiles) EXCEPT ![t] = flag_status(tiles[t].status)]
               /\ out.board.valid = valid

\* C15: in every reachable state, after any sequence of setup(), reset_mines() and tile
\* actions, valid is true exactly when no mine tile is checked.
C15_ValidIff ==
    raised = "none" =>
        (valid <=> ~\E i \in DOMAIN tiles : tiles[i].mine /\ tiles[i].status = "checked")

\* C16: tile ids are row-major and agree with the coordinate lookup: after setup() the
\* tiles are those of ids 0 .. width*height - 1, tile i has id i, row i div width and
\* column i mod width, and get_tile_id_by_row_and_col of its row and column gives i, on
\* every board, those of one row or one column included.
C16_RowMajor ==
    (last = "setup" /\ raised = "none") =>
        /\ DOMAIN tiles = 0 .. (width * height - 1)
        /\ \A i \in 0 .. (width * height - 1) :
              /\ tiles[i].id = i
              /\ tiles[i].row = i \div width
              /\ tiles[i].col = i % width
              /\ get_tile_id_by_row_and_col(width, height, tiles[i].row, tiles[i].col)
                     = <<i>>

\* a board of one column and three rows has been set up; its last tile lies in row 2
C16_Witness ==
    /\ last = "setup" /\ raised = "none"
    /\ width = 1 /\ height = 3
    /\ tiles[2].row = 2 /\ tiles[2].col = 0
    /\ get_tile_id_by_row_and_col(width, height, 2, 0) = <<2>>

\* the ids of the pressed tiles of a board
PressedOf(b) == {i \in DOMAIN b.tiles : b.tiles[i].pressed}

\* C17: a press on an unchecked tile of a live board leaves exactly that tile pressed
\* (a tile pressed before is released), sets tile_pressed, and changes no tile status,
\* nor valid or user_won; a press on a tile that is not unchecked changes nothing.
C17_Press ==
    raised = "none" =>
        \A t \in DOMAIN tiles :
            LET out == ById("press", t)
            IN /\ (Live /\ tiles[t].status = "unchecked") =>
                      /\ out.path = "press"
                      /\ PressedOf(out.board) = {t}
                      /\ out.board.tile_pressed
                      /\ StatusOf(out.board.tiles) = StatusOf(tiles)
                      /\ out.board.valid = valid
                      /\ out.board.user_won = user_won
               /\ tiles[t].status # "unchecked" => out.board = Board
               /\ ByRowCol("press", t) = out

\* a live board in play with a pressed tile u, a checked tile, and another unchecked
\* tile t whose press releases u
C17_Witness ==
    /\ Live /\ last = "tile_action"
    /\ \E t, u, v \in DOMAIN tiles :
          /\ t # u
          /\ tiles[u].pressed
          /\ tiles[v].status = "checked"
          /\ tiles[t].status = "unchecked"
          /\ PressedOf(ById("press", t).board) = {t}
          /\ ById("press", v).board = Board

\* C18: a release call, in any state (a lost board included), leaves no tile pressed,
\* tile_pressed false and current_pressed_tile -1, changes no tile status, nor valid or
\* user_won, and a second release call changes nothing more.
C18_Release ==
    raised = "none" =>
        LET out == tile_action_no_target(Board, "release")
        IN /\ out.path = "release"
           /\ PressedOf(out.board) = {}
           /\ ~out.board.tile_pressed
           /\ out.board.current_pressed_tile = -1
           /\ StatusOf(out.board.tiles) = StatusOf(tiles)
           /\ out.board.valid = valid
           /\ out.board.user_won = user_won
           /\ tile_action_no_target(out.board, "release") = out
           /\ \A t \in DOMAIN tiles :
                  ById("release", t) = out /\ ByRowCol("release", t) = out

\* a board in play with a pressed tile and a flagged tile, which a release call leaves
\* without a pressed tile
C18_Witness ==
    /\ raised = "none" /\ last = "tile_action" /\ tile_pressed
    /\ \E u, v \in DOMAIN tiles : tiles[u].pressed /\ tiles[v].status = "flagged"
    /\ PressedOf(tile_action_no_target(Board, "release").board) = {}

\* C19: after a press, click or flag call made while the board is invalid or won, no tile
\* is pressed and tile_pressed is false: the guarded call leaves no stuck pressed tile.
C19_NoStuckPress ==
    (raised = "none" /\ (~valid \/ user_won)) =>
        \A action \in {"press", "click", "flag"} :
            \A t \in DOMAIN tiles :
                LET out == ById(action, t)
                IN /\ out.path = "guard"
                   /\ PressedOf(out.board) = {}
                   /\ ~out.board.tile_pressed
                   /\ ByRowCol(action, t) = out

\* a lost board (a mine is checked) with an unchecked tile left, on which a press and a
\* click are attempted and leave nothing pressed
C19_Witness ==
    /\ raised = "none" /\ last = "tile_action" /\ ~valid
    /\ \E m, t \in DOMAIN tiles :
          /\ tiles[m].mine /\ tiles[m].status = "checked"
          /\ tiles[t].status = "unchecked"
          /\ ById("press", t).path = "guard"
          /\ PressedOf(ById("click", t).board) = {}

\* C20: a click clears all pressed state whatever its target: after the click that ends
\* a press, on an unchecked tile, on a checked, flagged or question-marked tile, or on a
\* row and column off the board, no tile is pressed and tile_pressed is false.
C20_ClickReleases ==
    (raised = "none" /\ tile_pressed) =>
        \A rc \in RowColTargets :
            LET out == tile_action_by_row_col(Board, neighbors, width, height,
                                              "click", rc[1], rc[2])
            IN PressedOf(out.board) = {} /\ ~out.board.tile_pressed

\* C21: a click on an unchecked tile that is no mine and has adjacent mines, on a live
\* board, sets only that tile to checked: no flood fill runs, no other tile changes
\* status and valid stays true.
C21_ClickNumber ==
    Live =>
        \A t \in DOMAIN tiles :
            (~tiles[t].mine /\ tiles[t].status = "unchecked" /\ tiles[t].adjacent_mines > 0) =>
                LET out == ByRowCol("click", t)
                IN /\ out.path = "click_number"
                   /\ StatusOf(out.board.tiles) = [StatusOf(tiles) EXCEPT ![t] = "checked"]
                   /\ out.board.valid
                   /\ ById("click", t) = out

\* a board in play with an unchecked numbered tile t next to an unchecked tile u that is
\* no mine; the click on t leaves u unchecked
C21_Witness ==
    /\ Live /\ last = "tile_action"
    /\ \E t \in DOMAIN tiles :
          /\ ~tiles[t].mine /\ tiles[t].status = "unchecked" /\ tiles[t].adjacent_mines > 0
          /\ \E u \in RefNeighbours(t) :
                /\ ~tiles[u].mine /\ tiles[u].status = "unchecked"
                /\ Click1(Board, t).tiles[u].status = "unchecked"
                /\ Click1(Board, t).tiles[t].status = "checked"

\* the tiles when the flood fill starts from tile t: _click_tile has checked t
FloodStart(t) == [tiles EXCEPT ![t].status = "checked"]

\* C22: the flood fill terminates for every board and every origin: the iteration cap is
\* never reached, the frontier loop makes at most width*height rounds, no tile enters
\* the frontier twice, and a checked tile stays checked, so that a tile is set to
\* checked at most once.
C22_FloodTerminates ==
    raised = "none" =>
        \A t \in DOMAIN tiles :
            ~tiles[t].mine =>
                LET f == find_zero_adjacent_neighboring_tiles(FloodStart(t), neighbors, t)
                    fr == flood_frontiers(FloodStart(t), neighbors, <<t>>, << >>)
                IN /\ f.error = "none"
                   /\ f.iters <= width * height
                   /\ Len(fr) <= width * height
                   /\ \A i, j \in 1 .. Len(fr) : fr[i] = fr[j] => i = j
                   /\ \A i \in DOMAIN tiles :
                          FloodStart(t)[i].status = "checked" => f.tiles[i].status = "checked"

\* a board of at least four tiles on which the flood fill from some tile takes as many
\* rounds as there are tiles
C22_Witness ==
    /\ raised = "none" /\ width * height >= 4
    /\ \E t \in DOMAIN tiles :
          /\ ~tiles[t].mine /\ tiles[t].status = "unchecked" /\ tiles[t].adjacent_mines = 0
          /\ find_zero_adjacent_neighboring_tiles(FloodStart(t), neighbors, t).iters
                 = width * height

\* the ids listed in a neighbor map entry
Listed(list) == {list[j] : j \in 1 .. Len(list)}

\* C23: after setup() and after reset_mines() the neighbor map has an entry for exactly
\* the tiles that are no mines, and each entry lists exactly the in-bounds 8-neighbours
\* of its tile, each once: existing tile ids only, never the tile itself, at most 8 of
\* them, and on boards of at least 2 by 2 tiles 3 for a corner and 5 for an edge tile.
C23_NeighborMap ==
    (last \in {"setup", "reset_mines"} /\ raised = "none") =>
        /\ DOMAIN neighbors = {i \in DOMAIN tiles : ~tiles[i].mine}
        /\ \A i \in DOMAIN neighbors :
              LET list == neighbors[i]
                  onRowEdge == tiles[i].row \in {0, height - 1}
                  onColEdge == tiles[i].col \in {0, width - 1}
              IN /\ Listed(list) = RefNeighbours(i)
                 /\ Len(list) = Cardinality(Listed(list))
                 /\ Listed(list) \subseteq 0 .. (width * height - 1)
                 /\ i \notin Listed(list)
                 /\ Len(list) <= 8
                 /\ (width >= 2 /\ height >= 2) =>
                        Len(list) = IF onRowEdge /\ onColEdge THEN 3
                                    ELSE IF onRowEdge \/ onColEdge THEN 5
                                    ELSE 8

\* a reshuffled board of 3 by 3 tiles with a mine, whose centre tile is no mine and has
\* eight neighbours listed, and whose corner tile 0 has three
C23_Witness ==
    /\ last = "reset_mines" /\ raised = "none"
    /\ width = 3 /\ height = 3 /\ mine_count >= 1
    /\ 4 \in DOMAIN neighbors /\ Len(neighbors[4]) = 8
    /\ 0 \in DOMAIN neighbors /\ Len(neighbors[0]) = 3
    /\ \E m \in DOMAIN tiles : tiles[m].mine /\ m \notin DOMAIN neighbors

C25_PressedTileTracked ==
    raised = "none" =>
        IF PressedOf(Board) = {} THEN current_pressed_tile = -1
        ELSE PressedOf(Board) = {current_pressed_tile}

\* the mine tiles of a board that are checked
CheckedMines(b) == {i \in DOMAIN b.tiles : b.tiles[i].mine /\ b.tiles[i].status = "checked"}

\* C26: in every reachable state at most one mine tile is checked, and a mine tile
\* becomes checked only through a click on that very tile, never through the flood fill
\* or another action.
C26_OneMineChecked ==
    raised = "none" =>
        /\ Cardinality(CheckedMines(Board)) <= 1
        /\ \A action \in {"press", "click", "flag"} :
              \A t \in DOMAIN tiles :
                  LET new == CheckedMines(ById(action, t).board) \ CheckedMines(Board)
                  IN /\ new \subseteq {t}
                     /\ new # {} => action = "click"
                     /\ CheckedMines(ByRowCol(action, t).board) \ CheckedMines(Board) = new

\* a lost board with two mines of which one is checked, after a flood fill that revealed
\* a tile next to a mine
C26_Witness ==
    /\ raised = "none" /\ last = "tile_action" /\ ~valid
    /\ Cardinality(tiles_with_mines) = 2
    /\ Cardinality(CheckedMines(Board)) = 1
    /\ \E u \in DOMAIN tiles :
          ~tiles[u].mine /\ tiles[u].status = "checked" /\ tiles[u].adjacent_mines > 0

\* C27: a flag call on tile t changes at most the status of t: the status of every other
\* tile, all pressed flags, valid and user_won are unchanged, t never becomes checked by
\* it, and a flag call on a checked tile changes nothing at all.
C27_FlagFrame ==
    raised = "none" =>
        \A t \in DOMAIN tiles :
            LET out == ById("flag", t)
            IN /\ out.board = [Board EXCEPT !.tiles[t].status = out.board.tiles[t].status]
               /\ out.board.tiles[t].status = "checked" => tiles[t].status = "checked"
               /\ tiles[t].status = "checked" => out.board = Board
               /\ ByRowCol("flag", t) = out

\* a board in play with a pressed tile t and a checked tile u: the flag call on t flags
\* it and leaves it pressed, the flag call on u changes nothing
C27_Witness ==
    /\ Live /\ last = "tile_action"
    /\ \E t, u \in DOMAIN tiles :
          /\ tiles[t].pressed /\ tiles[t].status = "unchecked"
          /\ tiles[u].status = "checked"
          /\ Flag1(Board, t).tiles[t].status = "flagged"
          /\ Flag1(Board, t).tiles[t].pressed
          /\ Flag1(Board, u) = Board

\* a board is closed when each checked tile that is no mine and has no adjacent mines
\* has all its neighbours checked
Closed(b) ==
    \A i \in DOMAIN b.tiles :
        (b.tiles[i].status = "checked" /\ ~b.tiles[i].mine /\ b.tiles[i].adjacent_mines = 0) =>
            \A j \in RefNeighbours(i) : b.tiles[j].status = "checked"

CheckedOf(ts) == {i \in DOMAIN ts : ts[i].status = "checked"}

\* C29: reveal is monotonic: between two calls of setup() or reset_mines() a checked
\* tile stays checked under every press, release, click and flag call, so the set of
\* checked tiles only grows.
C29_RevealMonotonic ==
    [][last' = "tile_action" => CheckedOf(tiles) \subseteq CheckedOf(tiles')]_vars

\* a board in play on which, after a tile was checked, another tile was pressed and then
\* flagged, the checked tile being still checked
C29_Witness ==
    /\ raised = "none" /\ last = "tile_action"
    /\ \E t, u \in DOMAIN tiles :
          /\ tiles[t].status = "checked"
          /\ tiles[u].pressed /\ tiles[u].status = "flagged"

\* C30: clicks on safe tiles commute: for two unchecked tiles a and b of a live board
\* that are no mines, click a then click b ends with the tile statuses, valid and
\* user_won of click b then click a, and what is newly checked is exactly the union of
\* the reveal regions of a and b.
C30_ClicksCommute ==
    Live =>
        \A a, b \in {i \in DOMAIN tiles : ~tiles[i].mine /\ tiles[i].status = "unchecked"} :
            a <= b =>
                LET ab == Click1(Click1(Board, a), b)
                    ba == Click1(Click1(Board, b), a)
                    union == RefRegion(a) \cup RefRegion(b)
                IN /\ StatusOf(ab.tiles) = StatusOf(ba.tiles)
                   /\ ab.valid = ba.valid
                   /\ ab.user_won = ba.user_won
                   /\ StatusOf(ab.tiles) =
                          [u \in DOMAIN tiles |->
                              IF u \in union THEN "checked" ELSE tiles[u].status]

\* a board in play with a mine, an unchecked tile a without adjacent mines and an
\* unchecked numbered tile b inside the reveal region of a: the click on a reveals b, and
\* the click on b alone does not reveal a
C30_Witness ==
    /\ Live /\ last = "tile_action" /\ mine_count >= 1
    /\ \E a, b \in DOMAIN tiles :
          /\ ~tiles[a].mine /\ tiles[a].status = "unchecked" /\ tiles[a].adjacent_mines = 0
          /\ ~tiles[b].mine /\ tiles[b].status = "unchecked" /\ tiles[b].adjacent_mines > 0
          /\ b \in RefRegion(a)
          /\ Click1(Board, a).tiles[b].status = "checked"
          /\ Click1(Board, b).tiles[a].status = "unchecked"
          /\ StatusOf(Click1(Click1(Board, a), b).tiles) =
                 StatusOf(Click1(Click1(Board, b), a).tiles)

====
